---------------------------- MODULE Spec2Model ----------------------------
(***************************************************************************)
(* final_disk_speed (src/disk.py): the speed of a uniform disk at the      *)
(* bottom of an incline, from an energy balance.                           *)
(*                                                                         *)
(* The function is evaluated in binary floating point.  Every Python       *)
(* float operation of the source (product, difference, quotient, square   *)
(* root, a decimal literal) is the exact result rounded to the nearest     *)
(* representable value, ties to even, as IEEE 754 does.  A float is a      *)
(* record [m, e] that stands for m * 2^e with a significand m of exactly   *)
(* Precision bits (or m = 0).  Python's float has 53 bits; the model       *)
(* keeps Precision bits so that every intermediate product fits a 32-bit  *)
(* integer.  The exponent range is unbounded: overflow to infinity and     *)
(* underflow are not modelled.                                             *)
(***************************************************************************)
EXTENDS Integers, FiniteSets, Sequences, TLC

\* Bits in a significand (53 in the Python float of the source).
Precision == 12

----------------------------------------------------------------------------
\* Binary floating point arithmetic, round to nearest, ties to even.

RECURSIVE Pow2(_)
Pow2(n) == IF n <= 0 THEN 1 ELSE 2 * Pow2(n - 1)

RECURSIVE BitLen(_)
BitLen(n) == IF n <= 0 THEN 0 ELSE 1 + BitLen(n \div 2)

Abs(n) == IF n < 0 THEN -n ELSE n

Sign(n) == IF n < 0 THEN -1 ELSE 1

Max(a, b) == IF a >= b THEN a ELSE b

Float(m, e) == [m |-> m, e |-> e]

\* 0.0
Zero == Float(0, 0)

\* nan: what np.sqrt returns for a negative argument.
NaN == Float(0, 1)

\* The value n * 2^e (plus, when sticky, a nonzero amount below the last bit
\* of n) rounded to Precision bits.
RoundTo(n, e, sticky) ==
    LET a == Abs(n)
        k == BitLen(a) - Precision
    IN  IF a = 0 THEN Zero
        ELSE IF k <= 0 THEN Float(n * Pow2(-k), e + k)
        ELSE LET q    == a \div Pow2(k)
                 r    == a % Pow2(k)
                 half == Pow2(k - 1)
                 up   == r > half \/ (r = half /\ (sticky \/ q % 2 = 1))
                 q2   == IF up THEN q + 1 ELSE q
             IN  IF q2 = Pow2(Precision)
                 THEN Float(Sign(n) * Pow2(Precision - 1), e + k + 1)
                 ELSE Float(Sign(n) * q2, e + k)

\* A decimal literal or an integer ratio num/den as a float.
FromRatio(num, den) ==
    LET a == Abs(num)
        k == Max(0, Precision + 1 + BitLen(den) - BitLen(a))
        s == a * Pow2(k)
    IN  IF num = 0 THEN Zero
        ELSE RoundTo(Sign(num) * (s \div den), -k, s % den # 0)

Neg(a) == Float(-a.m, a.e)

\* a * b
Mul(a, b) == RoundTo(a.m * b.m, a.e + b.e, FALSE)

\* a - b
Sub(a, b) ==
    LET d == a.e - b.e
    IN  IF b.m = 0 THEN a
        ELSE IF a.m = 0 THEN Neg(b)
        ELSE IF d >= Precision + 2 THEN a
        ELSE IF -d >= Precision + 2 THEN Neg(b)
        ELSE IF d >= 0 THEN RoundTo(a.m * Pow2(d) - b.m, b.e, FALSE)
        ELSE RoundTo(a.m - b.m * Pow2(-d), a.e, FALSE)

\* a <= b, a < b on floats
Leq(a, b) == Sub(a, b).m <= 0

Lt(a, b) == Sub(a, b).m < 0

\* The integer square root of n, found bit by bit from bit position b down.
RECURSIVE IsqrtFrom(_, _, _)
IsqrtFrom(n, b, acc) ==
    IF b < 0 THEN acc
    ELSE IF (acc + Pow2(b)) * (acc + Pow2(b)) <= n
         THEN IsqrtFrom(n, b - 1, acc + Pow2(b))
         ELSE IsqrtFrom(n, b - 1, acc)

\* sqrt(a): nan for a negative argument
Sqrt(a) ==
    IF a.m < 0 THEN NaN
    ELSE IF a.m = 0 THEN Zero
    ELSE LET k == IF (a.e - (Precision + 1)) % 2 = 0
                  THEN Precision + 1 ELSE Precision + 2
             n == a.m * Pow2(k)
             r == IsqrtFrom(n, Precision + 1, 0)
         IN  RoundTo(r, (a.e - k) \div 2, r * r # n)

\* The float just above a positive float a.
NextUp(a) ==
    IF a.m + 1 = Pow2(Precision) THEN Float(Pow2(Precision - 1), a.e + 1)
    ELSE Float(a.m + 1, a.e)

----------------------------------------------------------------------------
\* final_disk_speed, expression by expression.

\* g taken as 9.8.
G_98 == FromRatio(98, 10)

\* g = 9.81
G == FromRatio(981, 100)

\* np.radians(incline): incline * (pi / 180), with pi as 355/113
Radians(incline) == Mul(incline, FromRatio(355, 20340))

\* The sampled angles in degrees with their cosines as ratios (sqrt(3)/2 as
\* 1351/1560).  np.cos returns the cosine rounded to a float; on 53 bits the
\* rounding of theta moves cos(60) and cos(120) by one or two units in the
\* last place, which the table leaves out.
CosTable ==
    { <<0, 1, 1>>, <<30, 1351, 1560>>, <<60, 1, 2>>, <<120, -1, 2>> }

\* np.cos(theta) on the sampled angles
Cos(theta) ==
    LET row == CHOOSE r \in CosTable : Radians(FromRatio(r[1], 1)) = theta
    IN  FromRatio(row[2], row[3])

\* The friction work added to the potential energy, not subtracted from it.
EnergyAvailable_plus(height, length, theta, friction) ==
    Sub(Mul(G, height), Neg(Mul(Mul(Mul(friction, G), Cos(theta)), length)))

\* height and length taken for one another.
EnergyAvailable_swapped(height, length, theta, friction) ==
    Sub(Mul(G, length), Mul(Mul(Mul(friction, G), Cos(theta)), height))

\* g * height - friction * g * np.cos(theta) * length
EnergyAvailable(height, length, theta, friction) ==
    Sub(Mul(G, height), Mul(Mul(Mul(friction, G), Cos(theta)), length))

\* The guard testing for zero only.
EnergyExhausted_eq(energy) == energy.m = 0

\* The guard testing < 0.
EnergyExhausted_strict(energy) == energy.m < 0

\* if energy_available <= 0
EnergyExhausted(energy) == energy.m <= 0

\* The balance of a sliding block, v^2 = 2 * e: no rotational energy.
VSquared_sliding(energy) == Mul(FromRatio(2, 1), energy)

\* (4.0 / 3.0) * energy_available
VSquared(energy) == Mul(FromRatio(4, 3), energy)

\* np.sqrt(v_squared)
Velocity(vsq) == Sqrt(vsq)

\* The mass left in the potential energy, not cancelled.
final_disk_speed_massful(height, length, incline, mass, friction, radius) ==
    LET energy == EnergyAvailable(Mul(mass, height), length, Radians(incline),
                                  friction)
    IN  IF EnergyExhausted(energy) THEN Zero
        ELSE Velocity(VSquared(energy))

\* The whole call as a function of its six arguments.
final_disk_speed(height, length, incline, mass, friction, radius) ==
    LET energy == EnergyAvailable(height, length, Radians(incline), friction)
    IN  IF EnergyExhausted(energy) THEN Zero
        ELSE Velocity(VSquared(energy))

----------------------------------------------------------------------------
\* The arguments a call is made with.

Heights ==
    { FromRatio(-2, 1), Zero, FromRatio(2, 1), FromRatio(9, 2),
      FromRatio(10, 1), NextUp(FromRatio(10, 1)) }

Lengths ==
    { FromRatio(-6, 1), Zero, FromRatio(1, 1), FromRatio(6, 1),
      FromRatio(20, 1) }

Inclines == { FromRatio(r[1], 1) : r \in CosTable }

Masses == { FromRatio(1, 1), FromRatio(5, 1) }

Frictions ==
    { Zero, FromRatio(3, 10), FromRatio(3, 4), FromRatio(5, 1) }

Radii == { FromRatio(1, 2), FromRatio(2, 1) }

VARIABLES height, length, incline, mass, friction, radius,
          pc, theta, energy_available, v_squared, result

args == <<height, length, incline, mass, friction, radius>>

vars == <<height, length, incline, mass, friction, radius,
          pc, theta, energy_available, v_squared, result>>

\* A local not yet assigned, or no value returned yet.
Unset == Float(0, 2)

Init ==
    /\ height \in Heights
    /\ length \in Lengths
    /\ incline \in Inclines
    /\ mass \in Masses
    /\ friction \in Frictions
    /\ radius \in Radii
    /\ pc = "line16"
    /\ theta = Unset
    /\ energy_available = Unset
    /\ v_squared = Unset
    /\ result = Unset

\* theta = np.radians(incline)
ComputeTheta ==
    /\ pc = "line16"
    /\ theta' = Radians(incline)
    /\ pc' = "line38"
    /\ UNCHANGED <<args, energy_available, v_squared, result>>

\* energy_available = g * height - friction * g * np.cos(theta) * length
ComputeEnergy ==
    /\ pc = "line38"
    /\ energy_available' = EnergyAvailable(height, length, theta, friction)
    /\ pc' = "line41"
    /\ UNCHANGED <<args, theta, v_squared, result>>

\* if energy_available <= 0: return 0.0
ReturnZero ==
    /\ pc = "line41"
    /\ EnergyExhausted(energy_available)
    /\ result' = Zero
    /\ pc' = "return42"
    /\ UNCHANGED <<args, theta, energy_available, v_squared>>

\* v_squared = (4.0 / 3.0) * energy_available
ComputeVSquared ==
    /\ pc = "line41"
    /\ ~EnergyExhausted(energy_available)
    /\ v_squared' = VSquared(energy_available)
    /\ pc' = "line44"
    /\ UNCHANGED <<args, theta, energy_available, result>>

\* velocity = np.sqrt(v_squared); return velocity
ReturnVelocity ==
    /\ pc = "line44"
    /\ result' = Velocity(v_squared)
    /\ pc' = "return45"
    /\ UNCHANGED <<args, theta, energy_available, v_squared>>

Next ==
    \/ ComputeTheta
    \/ ComputeEnergy
    \/ ReturnZero
    \/ ComputeVSquared
    \/ ReturnVelocity

Spec == Init /\ [][Next]_vars

\* The call has returned.
Returned == pc \in {"return42", "return45"}

----------------------------------------------------------------------------
\* Exact comparisons, used to state properties without rounding.

\* n1 * 2^e1 <= n2 * 2^e2 for n1, n2 >= 0, exactly.
LeqDyadic(n1, e1, n2, e2) ==
    LET t1 == BitLen(n1) + e1
        t2 == BitLen(n2) + e2
    IN  IF n1 = 0 THEN TRUE
        ELSE IF n2 = 0 THEN FALSE
        ELSE IF t1 # t2 THEN t1 < t2
        ELSE IF e1 >= e2 THEN n1 * Pow2(e1 - e2) <= n2
        ELSE n1 <= n2 * Pow2(e2 - e1)

\* lo/den <= a <= hi/den for a float a >= 0, exactly.
InRange(a, lo, hi, den) ==
    /\ a # NaN
    /\ a.m >= 0
    /\ LeqDyadic(lo, 0, a.m * den, a.e)
    /\ LeqDyadic(a.m * den, a.e, hi, 0)

\* The sign of a float: -1, 0 or 1.
Sgn(a) == IF a.m < 0 THEN -1 ELSE IF a.m > 0 THEN 1 ELSE 0

\* The cosine of the slope angle of the call.
CosIncline == Cos(Radians(incline))

\* g * height - friction * g * cos(theta) * length with g = 9.81, written out.
EnergyFormula ==
    Sub(Mul(FromRatio(981, 100), height),
        Mul(Mul(Mul(friction, FromRatio(981, 100)), CosIncline), length))

\* sqrt((4/3) * g * height) with g = 9.81, written out.
FrictionlessSpeed ==
    Sqrt(Mul(FromRatio(4, 3), Mul(FromRatio(981, 100), height)))

\* height >= 0, length >= 0, friction >= 0, 0 <= incline <= 90.
PhysicalDomain ==
    /\ height.m >= 0
    /\ length.m >= 0
    /\ friction.m >= 0
    /\ Leq(Zero, incline)
    /\ Leq(incline, FromRatio(90, 1))

----------------------------------------------------------------------------
\* C1: whenever friction * cos(incline in radians) * length >= height (the
\* boundary of equality included), the call returns exactly 0.0.
C1_ZeroClamp ==
    (Returned /\ Leq(height, Mul(Mul(friction, CosIncline), length)))
        => result = Zero

\* C2: when the available energy e = g*height - friction*g*cos(theta)*length
\* (g = 9.81) is positive the call returns the non-negative v whose square is
\* (4/3) * e, to within the rounding of the three operations that produce it
\* (a relative 2^-(Precision-3)); and the result is positive exactly when e
\* is positive.
C2_EnergyBalance ==
    Returned =>
        /\ energy_available = EnergyFormula
        /\ (result # NaN /\ result.m > 0) <=> (EnergyFormula.m > 0)
        /\ EnergyFormula.m > 0 =>
            /\ LeqDyadic(4 * EnergyFormula.m * (Pow2(Precision - 3) - 1),
                         EnergyFormula.e,
                         3 * result.m * result.m,
                         2 * result.e + Precision - 3)
            /\ LeqDyadic(3 * result.m * result.m,
                         2 * result.e + Precision - 3,
                         4 * EnergyFormula.m * (Pow2(Precision - 3) + 1),
                         EnergyFormula.e)

\* A call with energy to spare has returned its speed.
C2_Witness ==
    /\ pc = "return45"
    /\ EnergyFormula.m > 0
    /\ friction.m > 0
    /\ length.m > 0

\* C3: whatever the six arguments (negative or zero height and length,
\* friction above 1, an incline outside 0..90), the call is at a line of the
\* function or at one of its two returns, and what it returns is a number
\* that is >= 0, never nan.
C3_Total ==
    /\ pc \in {"line16", "line38", "line41", "line44", "return42", "return45"}
    /\ pc = "line44" => v_squared.m > 0
    /\ Returned => (result # NaN /\ result # Unset /\ result.m >= 0)

\* A call with a negative height, a friction above 1 and an incline above 90
\* degrees has returned.
C3_Witness ==
    /\ Returned
    /\ height.m < 0
    /\ Lt(FromRatio(1, 1), friction)
    /\ Lt(FromRatio(90, 1), incline)
    /\ length.m < 0

\* C4: a call with the same height, length, incline and friction and any
\* other mass and radius returns the same result.
C4_MassRadiusInvariance ==
    Returned =>
        \A m2 \in Masses, r2 \in Radii :
            final_disk_speed(height, length, incline, m2, friction, r2) = result

\* A call with mass 5 and radius 0.5 has returned a positive speed.
C4_Witness ==
    /\ Returned
    /\ result.m > 0
    /\ mass = FromRatio(5, 1)
    /\ radius = FromRatio(1, 2)
    /\ friction.m > 0

\* C5 as stated: with friction = 0 the call returns sqrt((4/3) * g * height)
\* for every height, and the same for every length and incline.
C5_Frictionless_AnyHeight ==
    (Returned /\ friction = Zero) =>
        /\ result = FrictionlessSpeed
        /\ \A l2 \in Lengths, i2 \in Inclines :
               final_disk_speed(height, l2, i2, mass, friction, radius) = result

\* C5 amended: with friction = 0 the call returns sqrt((4/3) * g * height)
\* for every height >= 0 and 0.0 for every height < 0, and in both cases the
\* same for every length and incline.
C5_Frictionless ==
    (Returned /\ friction = Zero) =>
        /\ height.m >= 0 => result = FrictionlessSpeed
        /\ height.m < 0 => result = Zero
        /\ \A l2 \in Lengths, i2 \in Inclines :
               final_disk_speed(height, l2, i2, mass, friction, radius) = result

\* A frictionless call on a slope of positive height has returned.
C5_Witness ==
    /\ Returned
    /\ friction = Zero
    /\ height.m > 0
    /\ length.m > 0
    /\ incline = FromRatio(60, 1)

\* C6 as stated: with the other arguments fixed at any accepted values, the
\* result at a friction f2 >= friction is <= the result at friction, and a
\* result of 0 stays 0 at every larger friction.
C6_FrictionMonotone_AnyArgs ==
    Returned =>
        \A f2 \in Frictions :
            Leq(friction, f2) =>
                Leq(final_disk_speed(height, length, incline, mass, f2, radius),
                    result)

\* C6 amended: the same for length >= 0 and cos(incline) >= 0 (an incline
\* within 0..90 degrees).
C6_FrictionMonotone ==
    (Returned /\ length.m >= 0 /\ CosIncline.m >= 0) =>
        \A f2 \in Frictions :
            Leq(friction, f2) =>
                LET r2 == final_disk_speed(height, length, incline, mass, f2,
                                           radius)
                IN  /\ Leq(r2, result)
                    /\ result = Zero => r2 = Zero

\* A call on a slope of positive length has returned a positive speed that
\* some larger friction lowers.
C6_Witness ==
    /\ Returned
    /\ length.m > 0
    /\ CosIncline.m > 0
    /\ result.m > 0
    /\ \E f2 \in Frictions :
           /\ Lt(friction, f2)
           /\ Lt(final_disk_speed(height, length, incline, mass, f2, radius),
                 result)

\* C7 as stated: with the other arguments fixed and energy available at
\* height, the result at every height h2 > height is strictly greater.
C7_HeightStrictlyMonotone ==
    (Returned /\ energy_available.m > 0) =>
        \A h2 \in Heights :
            Lt(height, h2) =>
                Lt(result,
                   final_disk_speed(h2, length, incline, mass, friction, radius))

\* C7 amended: the result at every height h2 > height is greater than or
\* equal to the result at height, and positive.
C7_HeightMonotone ==
    (Returned /\ energy_available.m > 0) =>
        \A h2 \in Heights :
            Lt(height, h2) =>
                LET r2 == final_disk_speed(h2, length, incline, mass, friction,
                                           radius)
                IN  /\ Leq(result, r2)
                    /\ r2.m > 0

\* A call with energy available has returned and a greater height gives a
\* greater speed.
C7_Witness ==
    /\ Returned
    /\ energy_available.m > 0
    /\ friction.m > 0
    /\ \E h2 \in Heights :
           /\ Lt(height, h2)
           /\ Lt(result,
                 final_disk_speed(h2, length, incline, mass, friction, radius))

\* Scenario A: height 10, length 20, incline 30, mass 5, friction 0,
\* radius 0.5.
ScenarioA ==
    /\ height = FromRatio(10, 1)
    /\ length = FromRatio(20, 1)
    /\ incline = FromRatio(30, 1)
    /\ mass = FromRatio(5, 1)
    /\ friction = Zero
    /\ radius = FromRatio(1, 2)

C9_UnusualInputs_Always ==
    /\ (Returned /\ height = Zero) => result = Zero
    /\ (Returned /\ friction = FromRatio(5, 1)) => pc = "return42"

\* C9 amended: a call with height = 0 returns zero exactly when
\* friction * cos(incline) * length >= 0, and a call with friction = 5.0
\* takes the early zero return exactly when
\* g*height - 5.0*g*cos(incline)*length <= 0.
C9_UnusualInputs ==
    /\ (Returned /\ height = Zero) =>
           (result = Zero
              <=> Sgn(friction) * Sgn(CosIncline) * Sgn(length) >= 0)
    /\ (Returned /\ friction = FromRatio(5, 1)) =>
           (pc = "return42" /\ result = Zero
              <=> Sub(Mul(FromRatio(981, 100), height),
                      Mul(Mul(Mul(FromRatio(5, 1), FromRatio(981, 100)),
                              CosIncline), length)).m <= 0)

\* A call with friction 5.0 and no height, on a slope of positive length, has
\* taken the early zero return.
C9_Witness ==
    /\ pc = "return42"
    /\ friction = FromRatio(5, 1)
    /\ height = Zero
    /\ length.m > 0
    /\ CosIncline.m > 0

\* C10: in the physical domain (height, length, friction >= 0, incline in
\* 0..90) the result never exceeds the frictionless speed sqrt((4/3)*g*height)
\* for the same height.
C10_UpperBound ==
    (Returned /\ PhysicalDomain) =>
        /\ Leq(result, FrictionlessSpeed)
        /\ Leq(result,
               final_disk_speed(height, length, incline, mass, Zero, radius))

\* A call in the physical domain with friction at work has returned a
\* positive speed below the frictionless one.
C10_Witness ==
    /\ Returned
    /\ PhysicalDomain
    /\ friction.m > 0
    /\ length.m > 0
    /\ result.m > 0
    /\ Lt(result, FrictionlessSpeed)

=============================================================================
